---- MODULE Spec2Model ----
(***************************************************************************)
(* TradeSupport: session control and real-time streaming layer.            *)
(*                                                                         *)
(* The observer side (the useWebSocket hook, the REST client) is modelled  *)
(* from the TypeScript sources.  The server side (session controller,      *)
(* event channel, connection hub) is the FastAPI backend, whose sources    *)
(* are not part of the sources at hand; it is modelled from the design     *)
(* document (sections 3 to 5).                                             *)
(***************************************************************************)
EXTENDS Integers, Sequences, FiniteSets, TLC

(* ------------------------------ bounds -------------------------------- *)

\* How many times the effect of one hook instance is run (React runs it
\* again after a cleanup, e.g. under StrictMode).
MaxMounts == 2
\* How many runs are started, and log lines a task emits.
MaxRuns == 1
MaxLog == 2
\* Per-subscriber buffer of the hub (events written and not yet read).
MaxQueue == 2
\* How many times the caller clears the log.
MaxClears == 1
\* Start and stop requests of the App that are not yet settled.
MaxPending == 2
MaxStops == 1

\* WebSocket objects alive at once never exceed the number of effect runs:
\* a close event removes one socket and arms at most one timer, a timer
\* creates at most one socket.  Closed sockets are garbage: their slot is
\* reused.  One more timer id than pending timers, as reconnectTimeoutRef
\* may still hold the id of a timer that has fired.
Sockets == 1 .. MaxMounts
Timers == 1 .. (MaxMounts + 1)

AnalysisState == {"idle", "running", "stopped", "error"}

VARIABLES
    \* ---- useWebSocket (observer side) ----
    isConnected,          \* useState(false)
    messages,             \* useState<string[]>([])
    state,                \* useState<AnalysisState>('idle')
    wsRef,                \* useRef<WebSocket|null>: 0 is null, else a socket
    reconnectTimeoutRef,  \* useRef<number|null>: 0 is null, else a timer id
    shouldConnectRef,     \* useRef(true)
    readyState,           \* readyState of each WebSocket object
    timers,               \* timer ids armed by setTimeout and not yet fired/cleared
    mounted,              \* the effect is set up (its cleanup has not run)
    mounts,               \* how many times the effect has run
    clears,               \* how many times clearMessages was called
    \* ---- transport ----
    inbox,                \* per socket: messages written by the hub, not yet read
    \* ---- connection hub / event channel / session (server side) ----
    hubConn,              \* per socket: "none", "attached", "released"
    sessionState,         \* Session.state
    cancelToken,          \* "none", "live", "cancelled"
    taskPc,               \* the external task: "none", "running", "result", "cancelled", "failed"
    runId,                \* identity of the current (or last) run; 0 before the first
    emitted,              \* lines the task of the current run has emitted
    lastStart,            \* answer to the last start request: "none", "ok", "ConflictError"
    \* ---- history (observations only, never read by an action) ----
    received,             \* LogEvents received since the last clearMessages
    lastStatus,           \* state of the last StatusEvent received, "idle" if none
    lastEvt,              \* the last event the hook handled
    opens,                \* onopen events handled, counted up to 2
    terminals,            \* terminal transitions of the current run, in order
    results,              \* ResultEvents published for the current run
    ended,                \* how the task of the current run ended ("none" while it has not)
    stopRequested,        \* stop() signalled the cancellation of the current run
    tasks,                \* task executions launched and not yet reconciled
    missed,               \* lines published while the hook had no attached connection
    statusEvents,         \* StatusEvents published to the event channel
    \* ---- App (the caller of the hook) ----
    isStarting,           \* useState(false)
    error,                \* useState<string|null>(null): "null" or a message
    startReqs,            \* start requests of this client: sent, answered ok, answered non-ok
    stopReqs,             \* stop requests of this client: sent, answered ok
    logBeforeStart        \* history: the log as it was when handleStartAnalysis was last called

clientVars == <<isConnected, messages, state, wsRef, reconnectTimeoutRef,
                shouldConnectRef, readyState, timers, mounted, mounts, clears>>
serverVars == <<hubConn, sessionState, cancelToken, taskPc, runId,
                emitted, lastStart>>
histVars == <<received, lastStatus, lastEvt, opens, terminals, results,
              ended, stopRequested, tasks, missed, statusEvents>>
serverHist == <<terminals, results, ended, stopRequested, tasks, missed, statusEvents>>
appVars == <<isStarting, error, startReqs, stopReqs, logBeforeStart>>
vars == <<clientVars, inbox, serverVars, histVars, appVars>>

(* ------------------------------ messages ------------------------------ *)

\* types/index.ts: the tagged messages of the streaming surface.
LogMessage(m, t) == [type |-> "log", message |-> m, ts |-> t]
StatusMessage(st) == [type |-> "status", state |-> st]
ResultMessage(p) == [type |-> "result", payload |-> p]
PingMessage == [type |-> "ping"]

\* new Date(ts).toLocaleTimeString(): the time of day of the timestamp; the
\* date is dropped.
toLocaleTimeString(ts) == ts.time

\* `[${timestamp}] ${data.message}`: a line is the pair of the formatted
\* time and the message text.
FormatLine(data) == <<toLocaleTimeString(data.ts), data.message>>

RECURSIVE FormatAll(_)
FormatAll(evs) ==
    IF evs = <<>> THEN <<>>
    ELSE <<FormatLine(Head(evs))>> \o FormatAll(Tail(evs))

(* --------------------------- useWebSocket ----------------------------- *)

Live == {"CONNECTING", "OPEN"}

Min(S) == CHOOSE x \in S : \A y \in S : x <= y

FreeSockets == {s \in Sockets : readyState[s] = "CLOSED"}
FreeTimers == Timers \ (timers \cup {reconnectTimeoutRef})

\* The guard of connect(): return when the referenced socket is open or the
\* intent is cleared.  `intent` is shouldConnectRef.current as connect reads it.
connectReturns(intent) ==
    \/ (wsRef # 0 /\ readyState[wsRef] = "OPEN")
    \/ ~intent

\* connect(): behind the guard, new WebSocket(WS_URL), handlers, wsRef.current = ws.
connect(intent) ==
    IF connectReturns(intent)
    THEN UNCHANGED <<wsRef, readyState>>
    ELSE /\ FreeSockets # {}
         /\ LET ws == Min(FreeSockets) IN
              /\ readyState' = [readyState EXCEPT ![ws] = "CONNECTING"]
              /\ wsRef' = ws

\* clearTimeout(reconnectTimeoutRef.current), when the ref is set.
clearReconnectTimeout == IF reconnectTimeoutRef # 0 THEN timers \ {reconnectTimeoutRef} ELSE timers

\* useEffect body: shouldConnectRef.current = true; connect().
Mount ==
    /\ ~mounted
    /\ mounts < MaxMounts
    /\ mounted' = TRUE
    /\ mounts' = mounts + 1
    /\ shouldConnectRef' = TRUE
    /\ connect(TRUE)
    /\ lastEvt' = "mount"
    /\ UNCHANGED <<isConnected, messages, state, reconnectTimeoutRef, timers, clears>>
    /\ UNCHANGED <<inbox, serverVars>>
    /\ UNCHANGED <<received, lastStatus, opens, serverHist>>
    /\ UNCHANGED appVars

\* ws.close(): a socket that is connecting or open starts closing.
closeSocket(rs, ws) == IF rs[ws] \in Live THEN [rs EXCEPT ![ws] = "CLOSING"] ELSE rs

\* useEffect cleanup.
Cleanup ==
    /\ mounted
    /\ mounted' = FALSE
    /\ shouldConnectRef' = FALSE
    /\ timers' = clearReconnectTimeout
    /\ readyState' = IF wsRef # 0 THEN closeSocket(readyState, wsRef) ELSE readyState
    /\ wsRef' = 0
    /\ lastEvt' = "cleanup"
    /\ UNCHANGED <<isConnected, messages, state, reconnectTimeoutRef, mounts, clears>>
    /\ UNCHANGED <<inbox, serverVars>>
    /\ UNCHANGED <<received, lastStatus, opens, serverHist>>
    /\ UNCHANGED appVars

\* ws.onopen, once the hub has accepted the connection.
OnOpen(ws) ==
    /\ readyState[ws] = "CONNECTING"
    /\ hubConn[ws] # "none"
    /\ readyState' = [readyState EXCEPT ![ws] = "OPEN"]
    /\ isConnected' = TRUE
    /\ timers' = clearReconnectTimeout
    /\ reconnectTimeoutRef' = 0
    /\ lastEvt' = "open"
    /\ opens' = IF opens < 2 THEN opens + 1 ELSE opens
    /\ UNCHANGED <<messages, state, wsRef, shouldConnectRef, mounted, mounts, clears>>
    /\ UNCHANGED <<inbox, serverVars>>
    /\ UNCHANGED <<received, lastStatus, serverHist>>
    /\ UNCHANGED appVars

\* event.data that is not a tagged message: text that JSON.parse rejects
\* (SyntaxError), the JSON value null (reading data.type throws TypeError),
\* and a JSON value without a type property (a number, a string, {}).
SyntaxErrorFrame == [type |-> "SyntaxError"]
NullFrame == [type |-> "TypeError"]
UntaggedFrame == [type |-> "undefined"]
Unparseable == {SyntaxErrorFrame, NullFrame, UntaggedFrame}

\* The try block of ws.onmessage throws for this event.data, and the catch
\* block logs the failure.
throws(data) == data \in {SyntaxErrorFrame, NullFrame}

\* A handler that reports the failure in the log accumulator.
onmessageMessagesReportsFailure(prev, data) ==
    IF throws(data) THEN Append(prev, <<0, "Failed to parse WebSocket message">>)
    ELSE IF data.type = "log" THEN Append(prev, FormatLine(data))
    ELSE prev

\* A handler that appends to the `messages` its closure captured (the empty
\* list of the first render) instead of the previous value.
onmessageMessagesStale(prev, data) ==
    IF data.type = "log" THEN <<FormatLine(data)>> ELSE prev

\* A handler that sets the state field from every message that is not a log.
onmessageStateOfAny(prev, data) ==
    IF data.type = "log" THEN prev
    ELSE IF data.type = "status" THEN data.state
    ELSE "undefined"

\* A handler that takes only `running` from a StatusMessage.
onmessageStateRunningOnly(prev, data) ==
    IF data.type = "status" /\ data.state = "running" THEN data.state ELSE prev

\* A handler that puts the newest line first.
onmessageMessagesPrepend(prev, data) ==
    IF data.type = "log" THEN <<FormatLine(data)>> \o prev ELSE prev

\* ws.onmessage: what the handler makes of the log accumulator and of the
\* state field for a parsed message `data`.
onmessageMessages(prev, data) ==
    IF throws(data) THEN prev
    ELSE IF data.type = "ping" THEN prev
    ELSE IF data.type = "log" THEN Append(prev, FormatLine(data))
    ELSE prev

onmessageState(prev, data) ==
    IF throws(data) THEN prev
    ELSE IF data.type = "ping" THEN prev
    ELSE IF data.type = "log" THEN prev
    ELSE IF data.type = "status" THEN data.state
    ELSE prev

\* App: useEffect(..., [state]) runs after a render in which the state
\* field has changed, and clears the isStarting flag.
stateEffect(starting, prev, next) ==
    IF next # prev /\ next \in AnalysisState THEN FALSE ELSE starting

\* ws.onmessage for the next message of an open socket, with the render
\* and the effects that follow it.
OnMessage(ws) ==
    /\ readyState[ws] = "OPEN"
    /\ inbox[ws] # <<>>
    /\ LET data == Head(inbox[ws]) IN
         /\ messages' = onmessageMessages(messages, data)
         /\ state' = onmessageState(state, data)
         /\ received' = IF data.type = "log" THEN Append(received, data) ELSE received
         /\ lastStatus' = IF data.type = "status" THEN data.state ELSE lastStatus
         /\ lastEvt' = data.type
    /\ inbox' = [inbox EXCEPT ![ws] = Tail(@)]
    /\ UNCHANGED <<isConnected, wsRef, reconnectTimeoutRef, shouldConnectRef,
                   readyState, timers, mounted, mounts, clears>>
    /\ isStarting' = stateEffect(isStarting, state, state')
    /\ UNCHANGED serverVars
    /\ UNCHANGED <<opens, serverHist>>
    /\ UNCHANGED <<error, startReqs, stopReqs, logBeforeStart>>

\* A hook that retries only after a connection that had opened.
armsReconnectAfterOpenOnly == shouldConnectRef /\ isConnected

\* The reconnect timer armed by ws.onclose while the intent holds.
armsReconnect == shouldConnectRef

\* ws.onclose: the socket is closed (after close(), a refused handshake, an
\* error or a drop of the transport).  The hub's end of the connection is
\* released with it.
OnClose(ws) ==
    /\ readyState[ws] # "CLOSED"
    /\ readyState' = [readyState EXCEPT ![ws] = "CLOSED"]
    /\ isConnected' = FALSE
    /\ wsRef' = 0
    /\ IF armsReconnect
       THEN /\ FreeTimers # {}
            /\ LET t == Min(FreeTimers) IN
                 /\ timers' = timers \cup {t}
                 /\ reconnectTimeoutRef' = t
       ELSE UNCHANGED <<timers, reconnectTimeoutRef>>
    /\ inbox' = [inbox EXCEPT ![ws] = <<>>]
    /\ hubConn' = [hubConn EXCEPT ![ws] = "none"]
    /\ lastEvt' = "close"
    /\ UNCHANGED <<messages, state, shouldConnectRef, mounted, mounts, clears>>
    /\ UNCHANGED <<sessionState, cancelToken, taskPc, runId, emitted, lastStart>>
    /\ UNCHANGED <<received, lastStatus, opens, serverHist>>
    /\ UNCHANGED appVars

\* The setTimeout callback of ws.onclose, RECONNECT_DELAY after it was armed:
\* connect().
TimerFire(t) ==
    /\ t \in timers
    /\ timers' = timers \ {t}
    /\ connect(shouldConnectRef)
    /\ lastEvt' = "timer"
    /\ UNCHANGED <<isConnected, messages, state, reconnectTimeoutRef,
                   shouldConnectRef, mounted, mounts, clears>>
    /\ UNCHANGED <<inbox, serverVars>>
    /\ UNCHANGED <<received, lastStatus, opens, serverHist>>
    /\ UNCHANGED appVars

\* clearMessages: setMessages([]).
clearMessages ==
    /\ clears < MaxClears
    /\ clears' = clears + 1
    /\ messages' = <<>>
    /\ received' = <<>>
    /\ lastEvt' = "clear"
    /\ UNCHANGED <<isConnected, state, wsRef, reconnectTimeoutRef, shouldConnectRef,
                   readyState, timers, mounted, mounts>>
    /\ UNCHANGED <<inbox, serverVars>>
    /\ UNCHANGED <<lastStatus, opens, serverHist>>
    /\ UNCHANGED appVars

(* ---------------- event channel and connection hub -------------------- *)

clientHist == <<received, lastStatus, lastEvt, opens>>

Attached(s) == hubConn[s] = "attached"

\* The hook has a connection the hub holds a subscription for (it has none
\* before its effect first runs).
HookAttached == mounts > 0 /\ \E s \in Sockets : Attached(s)

\* A channel that hands the event to one subscriber only.
publishInboxFirstOnly(ib, hc, ev) ==
    [s \in Sockets |->
        IF /\ hc[s] = "attached"
           /\ Len(ib[s]) < MaxQueue
           /\ \A o \in Sockets : hc[o] = "attached" => s <= o
        THEN Append(ib[s], ev) ELSE ib[s]]

\* publish(event): the event is handed to every subscriber attached, behind
\* the events published before it.  A subscriber whose buffer is full is
\* disconnected (bounded buffering, disconnect on overflow).
publishInbox(ib, hc, ev) ==
    [s \in Sockets |->
        IF hc[s] = "attached" /\ Len(ib[s]) < MaxQueue THEN Append(ib[s], ev) ELSE ib[s]]

publishConn(ib, hc) ==
    [s \in Sockets |->
        IF hc[s] = "attached" /\ Len(ib[s]) >= MaxQueue THEN "released" ELSE hc[s]]

RECURSIVE publishAll(_, _)
publishAll(ch, evs) ==
    IF evs = <<>> THEN ch
    ELSE publishAll([ib |-> publishInbox(ch.ib, ch.hc, Head(evs)),
                     hc |-> publishConn(ch.ib, ch.hc)], Tail(evs))

\* The events of one step, published in order; StatusEvents are counted.
Publish(evs) ==
    LET ch == publishAll([ib |-> inbox, hc |-> hubConn], evs) IN
        /\ inbox' = ch.ib
        /\ hubConn' = ch.hc
        /\ statusEvents' = statusEvents + Cardinality({i \in DOMAIN evs : evs[i].type = "status"})

\* On new connection: subscribe, push the current state as a StatusEvent.
subscribeInbox(s) == [inbox EXCEPT ![s] = <<StatusMessage(sessionState)>>]

HubAccept(s) ==
    /\ readyState[s] = "CONNECTING"
    /\ hubConn[s] = "none"
    /\ hubConn' = [hubConn EXCEPT ![s] = "attached"]
    /\ inbox' = subscribeInbox(s)
    /\ UNCHANGED <<clientVars, clientHist, serverHist>>
    /\ UNCHANGED <<sessionState, cancelToken, taskPc, runId, emitted, lastStart>>
    /\ UNCHANGED appVars

\* The hub closes a connection (failed write, liveness timeout) and releases
\* its subscription; what it had already written still reaches the client.
HubRelease(s) ==
    /\ hubConn[s] = "attached"
    /\ hubConn' = [hubConn EXCEPT ![s] = "released"]
    /\ UNCHANGED <<clientVars, clientHist, serverHist, inbox>>
    /\ UNCHANGED <<sessionState, cancelToken, taskPc, runId, emitted, lastStart>>
    /\ UNCHANGED appVars

(* ------------------------- session controller ------------------------- *)

\* A start that allocates the fresh cancellation handle before it validates.
startRejectedFreshHandle ==
    /\ lastStart' = "ConflictError"
    /\ cancelToken' = "live"
    /\ UNCHANGED <<sessionState, taskPc, runId, emitted>>
    /\ UNCHANGED <<inbox, hubConn, serverHist>>

\* start(request) while a run is running: ConflictError, nothing else changes.
startRejected ==
    /\ lastStart' = "ConflictError"
    /\ UNCHANGED <<sessionState, cancelToken, taskPc, runId, emitted>>
    /\ UNCHANGED <<inbox, hubConn, serverHist>>

\* start(request) otherwise: transition to running, fresh cancellation
\* handle, the task is launched; StatusEvent(running) is published.
startAccepted ==
    /\ runId < MaxRuns
    /\ sessionState' = "running"
    /\ cancelToken' = "live"
    /\ taskPc' = "running"
    /\ runId' = runId + 1
    /\ emitted' = 0
    /\ lastStart' = "ok"
    /\ Publish(<<StatusMessage("running")>>)
    /\ tasks' = tasks + 1
    /\ terminals' = <<>>
    /\ results' = 0
    /\ ended' = "none"
    /\ stopRequested' = FALSE
    /\ UNCHANGED missed

Start ==
    /\ IF sessionState = "running" THEN startRejected ELSE startAccepted
    /\ UNCHANGED <<clientVars, clientHist>>
    /\ UNCHANGED appVars

\* A stop that makes the transition to stopped itself, without waiting for
\* the task.
StopTransitions ==
    /\ sessionState = "running"
    /\ sessionState' = "stopped"
    /\ cancelToken' = "cancelled"
    /\ stopRequested' = TRUE
    /\ Publish(<<StatusMessage("stopped")>>)
    /\ terminals' = Append(terminals, "stopped")
    /\ UNCHANGED <<clientVars, clientHist>>
    /\ UNCHANGED <<results, ended, tasks, missed>>
    /\ UNCHANGED <<taskPc, runId, emitted, lastStart>>
    /\ UNCHANGED appVars

\* stop(): a no-op when nothing is running, else the cancellation is
\* signalled; the transition waits for the task.
Stop ==
    /\ sessionState = "running"
    /\ cancelToken' = "cancelled"
    /\ stopRequested' = TRUE
    /\ UNCHANGED <<clientVars, clientHist, inbox>>
    /\ UNCHANGED <<terminals, results, ended, tasks, missed, statusEvents>>
    /\ UNCHANGED <<hubConn, sessionState, taskPc, runId, emitted, lastStart>>
    /\ UNCHANGED appVars

\* The line-emission callback: one LogEvent per line of the task.
LineOf(r, i) == LogMessage(<<r, i>>, [date |-> r, time |-> i])

TaskEmit ==
    /\ taskPc = "running"
    /\ emitted < MaxLog
    /\ emitted' = emitted + 1
    /\ Publish(<<LineOf(runId, emitted + 1)>>)
    /\ missed' = IF HookAttached THEN missed ELSE missed \cup {<<runId, emitted + 1>>}
    /\ UNCHANGED <<clientVars, clientHist>>
    /\ UNCHANGED <<terminals, results, ended, stopRequested, tasks>>
    /\ UNCHANGED <<sessionState, cancelToken, taskPc, runId, lastStart>>
    /\ UNCHANGED appVars

\* The task ends: with its result, by observing the cancellation signal, or
\* by failing.
TaskEnd(how) ==
    /\ taskPc = "running"
    /\ how = "cancelled" => cancelToken = "cancelled"
    /\ taskPc' = how
    /\ ended' = how
    /\ UNCHANGED <<clientVars, clientHist, inbox>>
    /\ UNCHANGED <<terminals, results, stopRequested, tasks, missed, statusEvents>>
    /\ UNCHANGED <<hubConn, sessionState, cancelToken, runId, emitted, lastStart>>
    /\ UNCHANGED appVars

\* Completion reconciliation: the terminal state for the way the task ended,
\* and whether a ResultEvent is published for it.
terminalState(how) == IF how = "failed" THEN "error" ELSE "stopped"

\* A reconciliation that publishes a result for every run that did not fail.
publishesResultUnlessFailed(how) == how # "failed"

publishesResult(how) == how = "result"

\* Completion reconciliation: a ResultEvent for a natural completion only,
\* then the one terminal transition with its StatusEvent.
Reconcile ==
    /\ taskPc \in {"result", "cancelled", "failed"}
    /\ LET st == terminalState(taskPc)
           res == IF publishesResult(taskPc) THEN <<ResultMessage(runId)>> ELSE <<>>
       IN /\ sessionState' = st
          /\ Publish(res \o <<StatusMessage(st)>>)
          /\ terminals' = Append(terminals, st)
          /\ results' = results + Len(res)
    /\ cancelToken' = "none"
    /\ taskPc' = "none"
    /\ tasks' = tasks - 1
    /\ UNCHANGED <<clientVars, clientHist, ended, stopRequested, missed>>
    /\ UNCHANGED <<runId, emitted, lastStart>>
    /\ UNCHANGED appVars

(* -------------------------------- App --------------------------------- *)

\* App: const effectiveState = isStarting ? 'running' : state.
effectiveState == IF isStarting THEN "running" ELSE state

\* ConfigPanel: isRunning, the Start button (disabled={isRunning}) and the
\* Stop button (disabled={!isRunning}).
isRunning == effectiveState = "running"
StartEnabled == ~isRunning
StopEnabled == isRunning

Unsettled(reqs) == reqs.sent + reqs.ok + (IF "rejected" \in DOMAIN reqs THEN reqs.rejected ELSE 0)

\* handleStartAnalysis, from the submit of the form to the await of
\* api.startAnalysis: setError(null), setIsStarting(true), clearMessages(),
\* POST /api/start.
ClickStart ==
    /\ mounted
    /\ StartEnabled
    /\ Unsettled(startReqs) < MaxPending
    /\ error' = "null"
    /\ isStarting' = TRUE
    /\ messages' = <<>>
    /\ received' = <<>>
    /\ logBeforeStart' = messages
    /\ startReqs' = [startReqs EXCEPT !.sent = @ + 1]
    /\ UNCHANGED <<isConnected, state, wsRef, reconnectTimeoutRef, shouldConnectRef,
                   readyState, timers, mounted, mounts, clears>>
    /\ UNCHANGED <<inbox, serverVars>>
    /\ UNCHANGED <<lastStatus, lastEvt, opens, serverHist>>
    /\ UNCHANGED stopReqs

\* POST /api/start of this client reaches the session controller.
AppStartServed ==
    /\ startReqs.sent > 0
    /\ IF sessionState = "running"
       THEN /\ startRejected
            /\ startReqs' = [startReqs EXCEPT !.sent = @ - 1, !.rejected = @ + 1]
       ELSE /\ startAccepted
            /\ startReqs' = [startReqs EXCEPT !.sent = @ - 1, !.ok = @ + 1]
    /\ UNCHANGED <<clientVars, clientHist>>
    /\ UNCHANGED <<isStarting, error, stopReqs, logBeforeStart>>

\* api.startAnalysis returns (response.ok): handleStartAnalysis ends.
StartResolved ==
    /\ startReqs.ok > 0
    /\ startReqs' = [startReqs EXCEPT !.ok = @ - 1]
    /\ UNCHANGED <<clientVars, inbox, serverVars, histVars>>
    /\ UNCHANGED <<isStarting, error, stopReqs, logBeforeStart>>

\* A catch block that leaves the isStarting flag as it is.
startCatchIsStartingKept(prev) == prev

\* The catch block of handleStartAnalysis: setIsStarting(false).
startCatchIsStarting(prev) == FALSE

\* api.startAnalysis throws on a response that is not ok, with the detail
\* of the response; the catch block records the message.
StartRejected ==
    /\ startReqs.rejected > 0
    /\ startReqs' = [startReqs EXCEPT !.rejected = @ - 1]
    /\ error' = "ConflictError"
    /\ isStarting' = startCatchIsStarting(isStarting)
    /\ UNCHANGED <<clientVars, inbox, serverVars, histVars>>
    /\ UNCHANGED <<stopReqs, logBeforeStart>>

\* fetch rejects (the server cannot be reached): the same catch block.
StartFails ==
    /\ startReqs.sent > 0
    /\ startReqs' = [startReqs EXCEPT !.sent = @ - 1]
    /\ error' = "Failed to fetch"
    /\ isStarting' = startCatchIsStarting(isStarting)
    /\ UNCHANGED <<clientVars, inbox, serverVars, histVars>>
    /\ UNCHANGED <<stopReqs, logBeforeStart>>

\* handleStopAnalysis, from the click to the await of api.stopAnalysis:
\* setError(null), POST /api/stop.
ClickStop ==
    /\ mounted
    /\ StopEnabled
    /\ Unsettled(stopReqs) < MaxStops
    /\ error' = "null"
    /\ stopReqs' = [stopReqs EXCEPT !.sent = @ + 1]
    /\ UNCHANGED <<clientVars, inbox, serverVars, histVars>>
    /\ UNCHANGED <<isStarting, startReqs, logBeforeStart>>

\* A stop that marks the cancellation handle whatever the state.
stopCancelTokenAlways(st, tok) == "cancelled"

\* stop(): the cancellation is signalled to a running task only.
stopCancelToken(st, tok) == IF st = "running" THEN "cancelled" ELSE tok

\* POST /api/stop of this client reaches the session controller: stop()
\* signals and returns; the answer is a success in every state.
AppStopServed ==
    /\ stopReqs.sent > 0
    /\ stopReqs' = [stopReqs EXCEPT !.sent = @ - 1, !.ok = @ + 1]
    /\ cancelToken' = stopCancelToken(sessionState, cancelToken)
    /\ stopRequested' = (stopRequested \/ sessionState = "running")
    /\ UNCHANGED <<clientVars, clientHist, inbox>>
    /\ UNCHANGED <<terminals, results, ended, tasks, missed, statusEvents>>
    /\ UNCHANGED <<hubConn, sessionState, taskPc, runId, emitted, lastStart>>
    /\ UNCHANGED <<isStarting, error, startReqs, logBeforeStart>>

\* api.stopAnalysis returns (response.ok): handleStopAnalysis ends.
StopResolved ==
    /\ stopReqs.ok > 0
    /\ stopReqs' = [stopReqs EXCEPT !.ok = @ - 1]
    /\ UNCHANGED <<clientVars, inbox, serverVars, histVars>>
    /\ UNCHANGED <<isStarting, error, startReqs, logBeforeStart>>

\* fetch rejects: the catch block of handleStopAnalysis records the message.
StopFails ==
    /\ stopReqs.sent > 0
    /\ stopReqs' = [stopReqs EXCEPT !.sent = @ - 1]
    /\ error' = "Failed to fetch"
    /\ UNCHANGED <<clientVars, inbox, serverVars, histVars>>
    /\ UNCHANGED <<isStarting, startReqs, logBeforeStart>>

(* ------------------------------ initial state ------------------------- *)

Init ==
    /\ isConnected = FALSE
    /\ messages = <<>>
    /\ state = "idle"
    /\ wsRef = 0
    /\ reconnectTimeoutRef = 0
    /\ shouldConnectRef = TRUE
    /\ readyState = [s \in Sockets |-> "CLOSED"]
    /\ timers = {}
    /\ mounted = FALSE
    /\ mounts = 0
    /\ clears = 0
    /\ inbox = [s \in Sockets |-> <<>>]
    /\ hubConn = [s \in Sockets |-> "none"]
    /\ sessionState = "idle"
    /\ cancelToken = "none"
    /\ taskPc = "none"
    /\ runId = 0
    /\ emitted = 0
    /\ lastStart = "none"
    /\ received = <<>>
    /\ lastStatus = "idle"
    /\ lastEvt = "none"
    /\ opens = 0
    /\ terminals = <<>>
    /\ results = 0
    /\ ended = "none"
    /\ stopRequested = FALSE
    /\ tasks = 0
    /\ missed = {}
    /\ statusEvents = 0
    /\ isStarting = FALSE
    /\ error = "null"
    /\ startReqs = [sent |-> 0, ok |-> 0, rejected |-> 0]
    /\ stopReqs = [sent |-> 0, ok |-> 0]
    /\ logBeforeStart = <<>>

\* Any WebSocket client of the hub (another tab, a test client): it
\* connects, reads what the hub wrote in order, and closes.
ObserverConnect(s) ==
    /\ readyState[s] = "CLOSED"
    /\ readyState' = [readyState EXCEPT ![s] = "CONNECTING"]
    /\ UNCHANGED <<isConnected, messages, state, wsRef, reconnectTimeoutRef,
                   shouldConnectRef, timers, mounted, mounts, clears>>
    /\ UNCHANGED <<inbox, serverVars, clientHist, serverHist>>
    /\ UNCHANGED appVars

ObserverRead(s) ==
    /\ hubConn[s] # "none"
    /\ inbox[s] # <<>>
    /\ inbox' = [inbox EXCEPT ![s] = Tail(@)]
    /\ UNCHANGED <<clientVars, serverVars, clientHist, serverHist>>
    /\ UNCHANGED appVars

ObserverClose(s) ==
    /\ readyState[s] # "CLOSED"
    /\ readyState' = [readyState EXCEPT ![s] = "CLOSED"]
    /\ inbox' = [inbox EXCEPT ![s] = <<>>]
    /\ hubConn' = [hubConn EXCEPT ![s] = "none"]
    /\ UNCHANGED <<isConnected, messages, state, wsRef, reconnectTimeoutRef,
                   shouldConnectRef, timers, mounted, mounts, clears>>
    /\ UNCHANGED <<sessionState, cancelToken, taskPc, runId, emitted, lastStart>>
    /\ UNCHANGED <<clientHist, serverHist>>
    /\ UNCHANGED appVars

\* Any server speaking the streaming surface: a tagged message of any type,
\* in any order, written to an accepted connection once the one before it
\* has been read.
LogLines == {LogMessage(<<1, i>>, [date |-> 1, time |-> i]) : i \in 1 .. MaxLog}
ServerMessages ==
    LogLines \cup {StatusMessage("running"), StatusMessage("stopped"),
                   ResultMessage(1), PingMessage} \cup Unparseable

ServerSend(s, m) ==
    /\ hubConn[s] = "attached"
    /\ inbox[s] = <<>>
    /\ m.type = "log" => Len(received) < MaxLog
    /\ inbox' = [inbox EXCEPT ![s] = Append(@, m)]
    /\ UNCHANGED <<clientVars, clientHist, serverVars, serverHist>>
    /\ UNCHANGED appVars

(* --------------------------- specifications --------------------------- *)

\* The session controller, the event channel and the hub, observed by one
\* mounted hook.
Next ==
    \/ Mount
    \/ \E ws \in Sockets : OnOpen(ws)
    \/ \E ws \in Sockets : OnMessage(ws)
    \/ \E ws \in Sockets : OnClose(ws)
    \/ \E t \in Timers : TimerFire(t)
    \/ \E s \in Sockets : HubAccept(s)
    \/ \E s \in Sockets : HubRelease(s)
    \/ Start
    \/ Stop
    \/ TaskEmit
    \/ \E how \in {"result", "cancelled", "failed"} : TaskEnd(how)
    \/ Reconcile

Spec == Init /\ [][Next]_vars

\* The server side with two plain observer connections.
Observers == {1, 2}

NextHub ==
    \/ \E s \in Observers : ObserverConnect(s)
    \/ \E s \in Observers : ObserverRead(s)
    \/ \E s \in Observers : ObserverClose(s)
    \/ \E s \in Observers : HubAccept(s)
    \/ \E s \in Observers : HubRelease(s)
    \/ Start
    \/ Stop
    \/ TaskEmit
    \/ \E how \in {"result", "cancelled", "failed"} : TaskEnd(how)
    \/ Reconcile

SpecHub == Init /\ [][NextHub]_vars

\* The life cycle of the hook's connection: effect runs and cleanups,
\* sockets, reconnect timers, against a hub that accepts and drops.
NextLife ==
    \/ Mount
    \/ Cleanup
    \/ \E ws \in Sockets : OnOpen(ws)
    \/ \E ws \in Sockets : OnMessage(ws)
    \/ \E ws \in Sockets : OnClose(ws)
    \/ \E t \in Timers : TimerFire(t)
    \/ \E s \in Sockets : HubAccept(s)
    \/ \E s \in Sockets : HubRelease(s)

SpecLife == Init /\ [][NextLife]_vars

\* One mounted hook against any server.
NextFeed ==
    \/ Mount
    \/ \E ws \in Sockets : OnOpen(ws)
    \/ \E ws \in Sockets : OnMessage(ws)
    \/ \E ws \in Sockets : OnClose(ws)
    \/ \E t \in Timers : TimerFire(t)
    \/ clearMessages
    \/ \E s \in Sockets : HubAccept(s)
    \/ \E s \in Sockets : HubRelease(s)
    \/ \E s \in Sockets, m \in ServerMessages : ServerSend(s, m)

SpecFeed == Init /\ [][NextFeed]_vars

\* The App with its hook, connected once, against the session controller;
\* another client may start the run.
NextApp ==
    \/ Mount
    \/ \E ws \in Sockets : OnOpen(ws)
    \/ \E ws \in Sockets : OnMessage(ws)
    \/ \E s \in Sockets : HubAccept(s)
    \/ ClickStart
    \/ AppStartServed
    \/ StartResolved
    \/ StartRejected
    \/ StartFails
    \/ ClickStop
    \/ AppStopServed
    \/ StopResolved
    \/ StopFails
    \/ Start
    \/ TaskEmit
    \/ \E how \in {"result", "cancelled", "failed"} : TaskEnd(how)
    \/ Reconcile

SpecApp == Init /\ [][NextApp]_vars

(* ---------------------- the hook's connection ------------------------- *)

\* The hook's scheduling: an armed timer fires; the hub, asked again and
\* again, eventually accepts a connection; an accepted connection that is
\* tried again and again eventually opens.
LiveLife ==
    /\ SpecLife
    /\ WF_vars(\E t \in Timers : TimerFire(t))
    /\ SF_vars(\E s \in Sockets : HubAccept(s))
    /\ SF_vars(\E ws \in Sockets : OnOpen(ws))

\* C2: whenever the connection is lost while the intent holds, the hook
\* keeps making reconnect attempts, one after every loss, until the
\* connectivity flag is true again (or the intent is cleared by a cleanup).
C2_ReconnectsUntilConnected ==
    (lastEvt = "close" /\ shouldConnectRef) ~> (isConnected \/ ~shouldConnectRef)

\* C2 witness: the same hook instance, its effect run once, is connected
\* again after a loss.
C2_Witness ==
    /\ mounts = 1
    /\ opens = 2
    /\ lastEvt = "open"
    /\ isConnected

\* C10: once the cleanup has cleared the intent, no socket is created and no
\* reconnect timer is pending, whatever was pending at the cleanup and
\* whatever close events arrive afterwards.
C10_NoReconnectAfterTeardown ==
    /\ [](~shouldConnectRef => timers = {})
    /\ [][(~shouldConnectRef /\ ~shouldConnectRef') =>
            \A s \in Sockets : readyState'[s] = "CONNECTING" => readyState[s] = "CONNECTING"]_vars

(* ------------------------ the hook's messages ------------------------- *)

\* C3: the log accumulator is, line for line and in arrival order, the
\* LogEvents received since the last clearMessages; nothing else (close,
\* reconnect timer, open, other messages) removes, reorders or repeats a line.
C3_LogIsWhatWasReceived == messages = FormatAll(received)

\* C3 witness: a second connection has just opened and the two different
\* lines gathered before the disconnect are still there.
C3_Witness ==
    /\ lastEvt = "open"
    /\ opens = 2
    /\ Len(messages) = 2
    /\ messages[1] # messages[2]

\* C4: handling a ping changes neither the log accumulator, nor the state
\* field, nor the connectivity flag.
C4_PingIgnored ==
    [][\A ws \in Sockets :
         (/\ readyState[ws] = "OPEN"
          /\ inbox[ws] # <<>>
          /\ Head(inbox[ws]).type = "ping"
          /\ OnMessage(ws))
         => UNCHANGED <<messages, state, isConnected>>]_vars

\* C4 witness: a ping has just been handled while the hook holds a log and
\* a state other than the initial one.
C4_Witness ==
    /\ lastEvt = "ping"
    /\ messages # <<>>
    /\ state = "running"
    /\ isConnected

\* C5: the state field is the state of the last StatusEvent received, idle
\* before the first.
C5_StateIsLastStatus == state = lastStatus

\* C5 witness: the connection has just closed and the hook still shows the
\* state it learned on it, with the log it gathered.
C5_Witness ==
    /\ lastEvt = "close"
    /\ ~isConnected
    /\ state = "running"
    /\ messages # <<>>

(* ----------------------- the session controller ------------------------ *)

\* C1: at most one task execution is in progress, and only while the
\* session is running; a start request received while running is answered
\* ConflictError and changes nothing of the session (state, cancel token,
\* identity, task) and publishes nothing.
C1_SingleRunningSession ==
    /\ [](tasks <= 1 /\ (sessionState = "running" <=> tasks = 1))
    /\ [][(sessionState = "running" /\ Start) =>
            /\ lastStart' = "ConflictError"
            /\ UNCHANGED <<sessionState, cancelToken, runId, taskPc, tasks, emitted>>
            /\ UNCHANGED <<inbox, hubConn, statusEvents>>]_vars

\* C1 witness: a start was rejected while a run, whose cancellation had been
\* signalled, was still running.
C1_Witness ==
    /\ lastStart = "ConflictError"
    /\ sessionState = "running"
    /\ cancelToken = "cancelled"
    /\ emitted > 0

Range(q) == {q[i] : i \in DOMAIN q}

\* C6: a run makes no terminal transition while it is running and exactly
\* one once it has left running, whatever the order of stop and the end of
\* the task; a ResultEvent and a transition to error never go together.
C6_OneTerminalTransition ==
    /\ Len(terminals) <= 1
    /\ results <= 1
    /\ sessionState = "running" => terminals = <<>>
    /\ (runId > 0 /\ sessionState # "running") => terminals = <<sessionState>>
    /\ "error" \in Range(terminals) => results = 0
    /\ results = 1 => ended = "result"

\* C6 witness: stop was signalled, the task completed naturally all the
\* same, and the run ended with its result and one transition.
C6_Witness ==
    /\ stopRequested
    /\ ended = "result"
    /\ results = 1
    /\ terminals = <<"stopped">>
    /\ sessionState = "stopped"

\* C7: the session stays running as long as the task has not exited; a run
\* whose task exited on observing the cancellation was stopped by stop(),
\* ends in stopped, and has no ResultEvent.
C7_CooperativeStop ==
    /\ taskPc = "running" => sessionState = "running"
    /\ ended = "cancelled" =>
         /\ stopRequested
         /\ results = 0
         /\ terminals \in {<<>>, <<"stopped">>}
    /\ (ended = "cancelled" /\ taskPc = "none") => sessionState = "stopped"

\* C7 witness: stopped in mid-run, after a line, by a cooperative exit.
C7_Witness ==
    /\ ended = "cancelled"
    /\ emitted = 1
    /\ taskPc = "none"
    /\ sessionState = "stopped"
    /\ results = 0

(* ---------------------------- event channel --------------------------- *)

IsPrefix(a, b) == Len(a) <= Len(b) /\ SubSeq(b, 1, Len(a)) = a

StatusCount(q) == Cardinality({i \in DOMAIN q : q[i].type = "status"})

StaysAttached(s) == Attached(s) /\ hubConn'[s] = "attached"

LineBefore(a, b) == a[2][1] < b[2][1] \/ (a[2][1] = b[2][1] /\ a[2][2] < b[2][2])

C11_UnparseableDiscarded ==
    /\ [][\A ws \in Sockets :
            (/\ readyState[ws] = "OPEN"
             /\ inbox[ws] # <<>>
             /\ Head(inbox[ws]) \in Unparseable
             /\ OnMessage(ws))
            => UNCHANGED <<messages, state, isConnected, readyState, wsRef,
                           timers, reconnectTimeoutRef, shouldConnectRef>>]_vars
    /\ [](messages = FormatAll(received) /\ state = lastStatus)

\* C11 witness: text that is not JSON has just been discarded on a
\* connection that stays open, between two lines of the log.
C11_Witness ==
    /\ lastEvt = "SyntaxError"
    /\ isConnected
    /\ wsRef # 0
    /\ readyState[wsRef] = "OPEN"
    /\ timers = {}
    /\ Len(messages) = 1
    /\ state = "running"

\* What the hook returns to its caller.
UseWebSocketResult ==
    [isConnected |-> isConnected, messages |-> messages, state |-> state]

\* C12: handling a ResultEvent leaves the log accumulator and the state
\* field unchanged and makes the payload available to the caller: what the
\* hook returns is no longer what it returned before the event.
C12_ResultSurfaced ==
    [][\A ws \in Sockets :
         (/\ readyState[ws] = "OPEN"
          /\ inbox[ws] # <<>>
          /\ Head(inbox[ws]).type = "result"
          /\ OnMessage(ws))
         => /\ UNCHANGED <<messages, state>>
            /\ UseWebSocketResult' # UseWebSocketResult]_vars

(* ---------------------- sockets of one hook --------------------------- *)

LiveSockets == {s \in Sockets : readyState[s] \in Live}

\* C15: a hook instance has at most one WebSocket connecting or open.
C15_OneLiveSocket == Cardinality(LiveSockets) <= 1

\* The socket the hook references is open.
CurrentOpen == wsRef # 0 /\ readyState[wsRef] = "OPEN"

\* C16: while the effect is set up, the connectivity flag is true exactly
\* when the referenced socket is open; and the close event of a socket other
\* than the referenced one, while the referenced one is open, changes
\* neither the flag nor the reference.
C16_FlagFollowsCurrentSocket ==
    /\ [](mounted => (isConnected <=> CurrentOpen))
    /\ [][\A ws \in Sockets :
            (/\ CurrentOpen
             /\ ws # wsRef
             /\ readyState[ws] # "CLOSED"
             /\ OnClose(ws))
            => UNCHANGED <<isConnected, wsRef>>]_vars

(* -------------------------------- the App ------------------------------ *)

\* A step in which a start request of this client fails: api.startAnalysis
\* throws, for a response that is not ok or a fetch that rejects.
StartFailureStep ==
    /\ Unsettled(startReqs') < Unsettled(startReqs)
    /\ startReqs'.ok = startReqs.ok

\* C13: when the answer to a start request is not ok, the error message is
\* recorded, the isStarting flag is reset and no start request is sent; a
\* start request is only ever sent by a submit of the form.
C13_RejectedStartSurfaced ==
    /\ [][startReqs'.rejected < startReqs.rejected =>
            /\ error' = "ConflictError"
            /\ isStarting' = FALSE
            /\ startReqs'.sent = startReqs.sent
            /\ startReqs'.ok = startReqs.ok]_vars
    /\ [][startReqs'.sent > startReqs.sent => (StartEnabled /\ ClickStart)]_vars

\* C13 witness: the controller answered ConflictError to this client's only
\* start request, and the App shows the error with the flag reset.
C13_Witness ==
    /\ lastStart = "ConflictError"
    /\ sessionState = "running"
    /\ error = "ConflictError"
    /\ ~isStarting
    /\ Unsettled(startReqs) = 0

\* C14: a stop request is answered with a success in every state; it makes
\* no transition, publishes nothing and does not wait for the task; it
\* marks the cancellation handle when the session is running, and changes
\* nothing at all when it is not.
C14_StopIdempotent ==
    [][stopReqs'.ok > stopReqs.ok =>
         /\ stopReqs'.ok = stopReqs.ok + 1
         /\ UNCHANGED <<sessionState, taskPc, runId, emitted, lastStart>>
         /\ UNCHANGED <<inbox, hubConn, statusEvents, terminals, results, tasks>>
         /\ IF sessionState = "running"
            THEN cancelToken' = "cancelled"
            ELSE UNCHANGED <<cancelToken, stopRequested, ended>>]_vars

\* C14 witness: the run ended on its own with its result, and the stop
\* request this client sent arrived after it: answered, nothing changed.
C14_Witness ==
    /\ stopReqs.ok = 1
    /\ ~stopRequested
    /\ ended = "result"
    /\ sessionState = "stopped"
    /\ cancelToken = "none"
    /\ terminals = <<"stopped">>

\* C17: a start attempt that fails leaves the log the client had gathered
\* before the attempt in place.
C17_LogKeptOnRejectedStart ==
    [][StartFailureStep => IsPrefix(logBeforeStart, messages')]_vars

\* The run has ended, the hook's connection is attached and has nothing
\* left to read, and no start request of this client is unsettled.
RunDelivered ==
    /\ runId > 0
    /\ sessionState # "running"
    /\ Unsettled(startReqs) = 0
    /\ wsRef # 0
    /\ readyState[wsRef] = "OPEN"
    /\ Attached(wsRef)
    /\ inbox[wsRef] = <<>>

\* C18: the isStarting flag is cleared by a failed start request and by
\* every StatusEvent received, whatever state it carries; once the run has
\* ended and its StatusEvents are delivered, the effective state is not
\* running.
C18_IsStartingCleared ==
    /\ [][StartFailureStep => isStarting' = FALSE]_vars
    /\ [][\A ws \in Sockets :
            (/\ readyState[ws] = "OPEN"
             /\ inbox[ws] # <<>>
             /\ Head(inbox[ws]).type = "status"
             /\ OnMessage(ws))
            => isStarting' = FALSE]_vars
    /\ [](RunDelivered => effectiveState # "running")

\* C19: the Start control is enabled exactly when the effective state is
\* not running and the Stop control exactly when it is; a start request is
\* sent only while the effective state is not running, a stop request only
\* while it is; and no start request is sent while another one of this
\* client is unsettled.
C19_ControlsFollowEffectiveState ==
    /\ [](/\ StartEnabled <=> effectiveState # "running"
          /\ StopEnabled <=> effectiveState = "running"
          /\ ~(StartEnabled /\ StopEnabled))
    /\ [][startReqs'.sent > startReqs.sent => effectiveState # "running"]_vars
    /\ [][stopReqs'.sent > stopReqs.sent => effectiveState = "running"]_vars
    /\ [](Unsettled(startReqs) <= 1)

====
